---- MODULE Spec2Model ----
(***************************************************************************)
(* Model of process_xtb/generate_xtb_by_batches.py: the file enumerator,   *)
(* the generate-batch driver (external tool step, augmentation step and    *)
(* their exception handlers) and the combine-xtb command, run one command  *)
(* at a time against one file system, any number of times.                 *)
(***************************************************************************)
EXTENDS Integers, Sequences, FiniteSets, TLC

\* ---------------------------------------------------------------- bounds
MaxFiles == 2     \* geometry files in the dataset, and distinct stems
NegStart == 2     \* --start_index ranges over -NegStart .. MaxStart
MaxStart == 1
MaxBatch == 2     \* --batch_size ranges over -1 .. MaxBatch

\* ------------------------------------------------------- program constants
\* XYZ_MOLECULES_DIR: 1 = bse49/Geometries/Existing,
\* 2 = bse49/Geometries/Hypothetical (the order of their path strings).
XYZ_MOLECULES_DIR == {1, 2}

Stems == 1..MaxFiles
StartIndexes == (0 - NegStart)..MaxStart
BatchSizes == (0 - 1)..MaxBatch

\* The per-molecule CSV written by process_molecule.sh: its first column is
\* the molecule name (the caller's contract, see the comment above
\* combine_xtb); one more column stands for the xtb columns.
tool_header == <<"mol_name", "xtb">>

morfeus_header ==
    <<"ip", "ea", "electrophilicity", "electrofugality", "nucleofugality">>

\* ------------------------------------------------------------ file system
\* A file is absent or holds a sequence of CSV lines, each a sequence of cells.
Absent == [exists |-> FALSE, rows |-> <<>>]
File(rows) == [exists |-> TRUE, rows |-> rows]

\* os.path.exists(output_file)
PathExists(dir, name) == dir[name].exists

\* A geometry file is <<directory, stem>>; its path string is
\* directory + "/" + stem + ".xyz", so paths order by directory, then stem.
PathLeq(p, q) == p[1] < q[1] \/ (p[1] = q[1] /\ p[2] <= q[2])

RECURSIVE SortPaths(_)
SortPaths(S) ==
    IF S = {} THEN <<>>
    ELSE LET m == CHOOSE p \in S : \A q \in S : PathLeq(p, q)
         IN <<m>> \o SortPaths(S \ {m})

\* get_all_xyz_files: every name ending in ".xyz" of every configured
\* directory that exists, sorted.
GetAllXyzFiles(dirs) ==
    SortPaths({p \in XYZ_MOLECULES_DIR \X Stems :
                 /\ dirs[p[1]].isdir
                 /\ <<p[2], "xyz">> \in dirs[p[1]].names})

\* os.path.splitext(os.path.basename(xyz_file_path))[0]
MolName(path) == path[2]

\* What the external tool computes from one geometry file.
XtbValue(path) == "xtb(" \o ToString(path[1]) \o "/" \o ToString(path[2]) \o ")"

ToolCsv(path) == <<tool_header, <<ToString(MolName(path)), XtbValue(path)>>>>

\* [ip, ea, electrophilicity, electrofugality, nucleofugality] of one geometry.
MorfeusData(path) ==
    [k \in 1..Len(morfeus_header) |->
        morfeus_header[k] \o "(" \o ToString(path[1]) \o "/"
                          \o ToString(path[2]) \o ")"]

\* all_xyz_files[index] with Python's list indexing.
IndexInRange(index, size) == (0 - size) <= index /\ index < size
ListIndex(list, index) ==
    IF index >= 0 THEN list[index + 1] ELSE list[Len(list) + index + 1]

Min(a, b) == IF a <= b THEN a ELSE b


\* ------------------------------------------------------------------ state
VARIABLES
    xyz_dirs,        \* the configured input directories: [isdir, names]
    output_dir,      \* mol_name |-> the file output_dir/mol_name.csv
    combined_file,   \* the file at combine-xtb's --output-file
    pc,              \* where the running command is, or how the last one ended
    start_index, batch_size,            \* generate_batch's options
    all_xyz_files, end_index, index,    \* generate_batch's locals
    visited,         \* this run: the indices whose file was looked up, in order
    last,            \* this run: the latest loop iteration
    failed,          \* this run: some step has failed
    last_attempt,    \* this run: mol_name |-> how the latest attempt on it ended
    tool_calls,      \* this run: mol_name |-> calls of subprocess.run
    aug_calls,       \* this run: mol_name |-> augmentations started
    dir_at_start,    \* output_dir as it was when this run began
    runs,            \* generate-batch runs so far: 0, 1, 2 for two or more
    first            \* in a second run that repeats the first run's range after
                     \* no step failed: the first run's calls by mol_name

vars == <<xyz_dirs, output_dir, combined_file, pc, start_index, batch_size,
          all_xyz_files, end_index, index, visited, last, failed,
          last_attempt, tool_calls, aug_calls, dir_at_start, runs, first>>

batch_locals == <<start_index, batch_size, all_xyz_files, end_index>>
inputs == <<xyz_dirs, combined_file>>
counters == <<dir_at_start, runs, first>>

\* A command has ended (or none has run): the next one may start.  The
\* batches are generated first and combined afterwards.
BatchEnded == {"idle", "done", "crashed"}
Ended == BatchEnded \cup {"combine_done", "combine_nofiles", "combine_crashed"}

ToolFailures == {"tool_exit", "tool_exception"}
AugmentFailures == {"aug_library", "aug_read", "aug_write"}
Failures == ToolFailures \cup AugmentFailures

NoCalls == [n \in Stems |-> 0]
NoAttempt == [n \in Stems |-> "none"]
NoVisit == [path |-> <<0, 0>>, existed |-> FALSE, outcome |-> "none"]
NoFirst == [repeat |-> FALSE, tool |-> NoCalls, aug |-> NoCalls]

\* A directory listing: names are <<stem, extension>>.  Every directory that
\* exists holds some geometry files and one file that is not a geometry.
OtherNames == {<<1, "txt">>}
Listings == {xs \cup OtherNames : xs \in SUBSET {<<s, "xyz">> : s \in Stems}}
DirStates == {[isdir |-> FALSE, names |-> {}]}
                 \cup {[isdir |-> TRUE, names |-> l] : l \in Listings}

Init ==
    /\ xyz_dirs \in [XYZ_MOLECULES_DIR -> DirStates]
    /\ Len(GetAllXyzFiles(xyz_dirs)) <= MaxFiles
    /\ output_dir = [n \in Stems |-> Absent]
    /\ combined_file = Absent
    /\ pc = "idle"
    /\ start_index = 0
    /\ batch_size = 0
    /\ all_xyz_files = <<>>
    /\ end_index = 0
    /\ index = 0
    /\ visited = <<>>
    /\ last = NoVisit
    /\ failed = FALSE
    /\ last_attempt = NoAttempt
    /\ tool_calls = NoCalls
    /\ aug_calls = NoCalls
    /\ dir_at_start = [n \in Stems |-> Absent]
    /\ runs = 0
    /\ first = NoFirst

\* ---------------------------------------------------------- generate_batch
dataset_size == Len(all_xyz_files)

\* A `continue' that leaves the loop instead (what `break', or an exception
\* nothing catches, would do).
Break(i) == [pc |-> "done", index |-> i + 1]

\* `continue': on to the next index of range(start_index, end_index).
Continue(i) == [pc |-> "loop", index |-> i + 1]

\* Lines 104-105: the CalledProcessError handler's clean-up.  os.remove of a
\* file that os.path.exists has just seen is taken to succeed.
ToolFailureCleanup(dir, name) ==
    IF PathExists(dir, name) THEN [dir EXCEPT ![name] = Absent] ELSE dir

\* An augmentation handler that forgets the clean-up.
AugmentFailureKeep(dir, name) == dir

\* Lines 170-171: the augmentation handler's clean-up.
AugmentFailureCleanup(dir, name) ==
    IF PathExists(dir, name) THEN [dir EXCEPT ![name] = Absent] ELSE dir

\* Lines 107-111: the handler of any other exception leaves the file alone.
ToolExceptionCleanup(dir, name) == dir

\* Lines 67-74.  os.makedirs(output_dir, exist_ok=True) is taken to succeed.
GenerateBatchStart(s, b) ==
    /\ pc \in BatchEnded
    /\ start_index' = s
    /\ batch_size' = b
    /\ all_xyz_files' = GetAllXyzFiles(xyz_dirs)
    /\ end_index' = Min(s + b, Len(all_xyz_files'))
    /\ index' = s
    /\ pc' = "loop"
    /\ visited' = <<>>
    /\ last' = NoVisit
    /\ failed' = FALSE
    /\ last_attempt' = NoAttempt
    /\ tool_calls' = NoCalls
    /\ aug_calls' = NoCalls
    /\ dir_at_start' = output_dir
    /\ runs' = IF runs < 2 THEN runs + 1 ELSE runs
    /\ first' = IF runs = 1 /\ s = start_index /\ b = batch_size /\ ~failed
                THEN [repeat |-> TRUE, tool |-> tool_calls, aug |-> aug_calls]
                ELSE NoFirst
    /\ UNCHANGED <<xyz_dirs, output_dir, combined_file>>

\* Line 76: range(start_index, end_index) is exhausted.
LoopExit ==
    /\ pc = "loop"
    /\ index >= end_index
    /\ pc' = "done"
    /\ UNCHANGED <<inputs, output_dir, batch_locals, index, visited, last,
                   failed, last_attempt, counters, tool_calls, aug_calls>>

\* Line 77: all_xyz_files[index] raises IndexError, which nothing catches.
LookupIndexError ==
    /\ pc = "loop"
    /\ index < end_index
    /\ ~IndexInRange(index, dataset_size)
    /\ pc' = "crashed"
    /\ UNCHANGED <<inputs, output_dir, batch_locals, index, visited, last,
                   failed, last_attempt, counters, tool_calls, aug_calls>>

Visit(path, outcome) ==
    [path |-> path, existed |-> output_dir[MolName(path)].exists,
     outcome |-> outcome]

\* Lines 77-85: the output file exists, the molecule is skipped.
SkipProcessed ==
    /\ pc = "loop"
    /\ index < end_index
    /\ IndexInRange(index, dataset_size)
    /\ LET path == ListIndex(all_xyz_files, index)
       IN /\ PathExists(output_dir, MolName(path))
          /\ last' = Visit(path, "skipped")
    /\ visited' = Append(visited, index)
    /\ pc' = Continue(index).pc
    /\ index' = Continue(index).index
    /\ UNCHANGED <<inputs, output_dir, batch_locals, failed, last_attempt,
                   counters, tool_calls, aug_calls>>

\* What the script may have left at output_file when subprocess.run returns
\* or raises: nothing, a file it created but did not fill, the whole CSV.
LeftKinds == {"nothing", "empty", "csv"}
ToolLeaves(path, left) ==
    CASE left = "nothing" -> Absent
      [] left = "empty" -> File(<<>>)
      [] left = "csv" -> File(ToolCsv(path))

\* Lines 77-111: the external tool step and its two handlers.
\*   "ok"             subprocess.run returns (exit code 0)
\*   "tool_exit"      CalledProcessError (non-zero exit code)
\*   "tool_exception" any other exception of the subprocess call
RunTool(result, left) ==
    /\ pc = "loop"
    /\ index < end_index
    /\ IndexInRange(index, dataset_size)
    /\ LET path == ListIndex(all_xyz_files, index)
           name == MolName(path)
           written == [output_dir EXCEPT ![name] = ToolLeaves(path, left)]
       IN /\ ~PathExists(output_dir, name)
          /\ visited' = Append(visited, index)
          /\ tool_calls' = [tool_calls EXCEPT ![name] = @ + 1]
          /\ CASE result = "ok" ->
                   /\ output_dir' = written
                   /\ last' = Visit(path, "running")
                   /\ last_attempt' = [last_attempt EXCEPT ![name] = "running"]
                   /\ failed' = failed
                   /\ pc' = "augment"
                   /\ index' = index
               [] result = "tool_exit" ->
                   /\ output_dir' = ToolFailureCleanup(written, name)
                   /\ last' = Visit(path, "tool_exit")
                   /\ last_attempt' = [last_attempt EXCEPT ![name] = "tool_exit"]
                   /\ failed' = TRUE
                   /\ pc' = Continue(index).pc
                   /\ index' = Continue(index).index
               [] result = "tool_exception" ->
                   /\ output_dir' = ToolExceptionCleanup(written, name)
                   /\ last' = Visit(path, "tool_exception")
                   /\ last_attempt' =
                          [last_attempt EXCEPT ![name] = "tool_exception"]
                   /\ failed' = TRUE
                   /\ pc' = Continue(index).pc
                   /\ index' = Continue(index).index
    /\ UNCHANGED <<inputs, batch_locals, counters, aug_calls>>

\* Lines 145-148: the header and the data row the csv reader returns, when the
\* file opens and holds two lines.
Readable(file) == file.exists /\ Len(file.rows) >= 2

\* Lines 151-152.
CombinedCsv(file, path) ==
    <<file.rows[1] \o morfeus_header, file.rows[2] \o MorfeusData(path)>>

\* What a failed overwrite may leave: open(..., "w") has truncated the file
\* and at most the header row was written.
PartialKinds == {"empty", "header"}
WriteLeaves(file, path, partial) ==
    IF partial = "empty" THEN File(<<>>)
    ELSE File(<<CombinedCsv(file, path)[1]>>)

\* Lines 113-172: the augmentation step and its handler.
\*   "library_error" read_xyz, XTB or a descriptor call raises (lines 118-132)
\*   "write_error"   the overwrite raises (lines 155-158)
\*   "ok"            nothing raises but, possibly, the read of the file
\* The read (lines 145-148) raises when the file is missing or holds fewer
\* than two lines.
Augment(result, partial) ==
    /\ pc = "augment"
    /\ LET path == ListIndex(all_xyz_files, index)
           name == MolName(path)
           file == output_dir[name]
           done(outcome, dir) ==
               /\ output_dir' = dir
               /\ last' = [last EXCEPT !.outcome = outcome]
               /\ failed' = (failed \/ outcome \in AugmentFailures)
               /\ last_attempt' = [last_attempt EXCEPT ![name] = outcome]
       IN /\ aug_calls' = [aug_calls EXCEPT ![name] = @ + 1]
          /\ IF result = "library_error"
             THEN done("aug_library", AugmentFailureCleanup(output_dir, name))
             ELSE IF ~Readable(file)
             THEN done("aug_read", AugmentFailureCleanup(output_dir, name))
             ELSE IF result = "write_error"
             THEN done("aug_write",
                       AugmentFailureCleanup(
                           [output_dir EXCEPT
                               ![name] = WriteLeaves(file, path, partial)],
                           name))
             ELSE done("ok", [output_dir EXCEPT
                                 ![name] = File(CombinedCsv(file, path))])
    /\ pc' = Continue(index).pc
    /\ index' = Continue(index).index
    /\ UNCHANGED <<inputs, batch_locals, visited, counters, tool_calls>>


\* ------------------------------------------------------------- combine_xtb
\* pd.read_csv: the first line is the header, the others are the rows;
\* a file with no line at all raises EmptyDataError.
CanReadCsv(file) == Len(file.rows) >= 1
ReadCsv(file) == [columns |-> file.rows[1], data |-> Tail(file.rows)]

Has(seq, x) == \E k \in DOMAIN seq : seq[k] = x
PositionOf(seq, x) == CHOOSE k \in DOMAIN seq : seq[k] = x

\* The columns of b that a lacks, in b's order, after a's.
RECURSIVE UnionColumns(_, _)
UnionColumns(a, b) ==
    IF b = <<>> THEN a
    ELSE UnionColumns(IF Has(a, Head(b)) THEN a ELSE Append(a, Head(b)), Tail(b))

\* One row laid out under `columns'; a column the row lacks is left empty.
Align(columns, frame, row) ==
    [k \in DOMAIN columns |->
        IF Has(frame.columns, columns[k])
        THEN row[PositionOf(frame.columns, columns[k])] ELSE ""]

RECURSIVE AllColumns(_)
AllColumns(frames) ==
    IF frames = <<>> THEN <<>>
    ELSE UnionColumns(Head(frames).columns, AllColumns(Tail(frames)))

RECURSIVE AllRows(_, _)
AllRows(columns, frames) ==
    IF frames = <<>> THEN <<>>
    ELSE [k \in DOMAIN Head(frames).data |->
              Align(columns, Head(frames), Head(frames).data[k])]
         \o AllRows(columns, Tail(frames))

\* pd.concat(df_list, ignore_index=True)
Concat(frames) ==
    [columns |-> AllColumns(frames),
     data |-> AllRows(AllColumns(frames), frames)]

\* DataFrame.to_csv(output_file, index=False)
ToCsv(frame) == <<frame.columns>> \o frame.data

\* glob.glob(os.path.join(input_dir, "*.csv")): the files, in any order.
CsvFiles(dir) == {n \in DOMAIN dir : dir[n].exists}
Orders(S) == {o \in [1..Cardinality(S) -> S] : \A n \in S : Has(o, n)}

\* Lines 188-202.  has_parent: os.path.dirname(output_file) is not "";
\* os.makedirs("") raises FileNotFoundError.
CombineXtb(order, has_parent) ==
    /\ pc \in Ended
    /\ order \in Orders(CsvFiles(output_dir))
    /\ IF order = <<>>
       THEN /\ pc' = "combine_nofiles"
            /\ UNCHANGED combined_file
       ELSE IF \E k \in DOMAIN order : ~CanReadCsv(output_dir[order[k]])
       THEN /\ pc' = "combine_crashed"
            /\ UNCHANGED combined_file
       ELSE IF ~has_parent
       THEN /\ pc' = "combine_crashed"
            /\ UNCHANGED combined_file
       ELSE /\ pc' = "combine_done"
            /\ combined_file' =
                   File(ToCsv(Concat([k \in DOMAIN order |->
                                         ReadCsv(output_dir[order[k]])])))
    /\ UNCHANGED <<xyz_dirs, output_dir, batch_locals, index, visited, last,
                   failed, last_attempt, counters, tool_calls, aug_calls>>

\* ---------------------------------------------------------- specification
Next ==
    \/ \E s \in StartIndexes, b \in BatchSizes : GenerateBatchStart(s, b)
    \/ LoopExit
    \/ LookupIndexError
    \/ SkipProcessed
    \/ \E result \in {"ok", "tool_exit", "tool_exception"} :
           \E left \in LeftKinds : RunTool(result, left)
    \/ \E result \in {"ok", "library_error", "write_error"} :
           \E partial \in PartialKinds : Augment(result, partial)
    \/ \E order \in UNION {Orders(S) : S \in SUBSET Stems},
          has_parent \in BOOLEAN : CombineXtb(order, has_parent)

Spec == Init /\ [][Next]_vars


\* ------------------------------------------------------------- properties
RunEnded == pc \in {"done", "crashed"}
FullHeader == tool_header \o morfeus_header
\* The driver has just moved on from the iteration `last'.
MovedOn == pc = "loop" /\ last # NoVisit
\* The indices of the range that denote a file of the list.
RangeIndices ==
    {i \in start_index..(end_index - 1) : IndexInRange(i, dataset_size)}

\* C1: when the external tool step fails for a molecule (non-zero exit code or
\* any other exception of the subprocess call), the molecule's output file
\* does not exist when the driver moves on to the next index, and the
\* Augmenter is not invoked in that iteration.
C1_ToolFailureRemovesOutput ==
    /\ []((MovedOn /\ last.outcome \in ToolFailures)
              => ~PathExists(output_dir, MolName(last.path)))
    /\ [][last'.outcome \in ToolFailures => aug_calls' = aug_calls]_vars

\* C2: after any sequence of runs, a molecule whose most recent attempt failed
\* in either step has no output file (so the next run retries it), and no
\* file that lacks the Augmenter's columns is left behind by a run.
C2_FailedMoleculeIsRetried ==
    pc \in BatchEnded =>
        \A n \in Stems :
            /\ last_attempt[n] \in Failures => ~PathExists(output_dir, n)
            /\ PathExists(output_dir, n) =>
                   /\ Len(output_dir[n].rows) = 2
                   /\ output_dir[n].rows[1] = FullHeader

\* C3: once the Augmenter step has failed for a molecule (library error, read
\* of the existing file, overwrite), the molecule's output file is absent
\* from the moment the driver moves on, for as long as that is the latest
\* attempt on the molecule: neither the un-augmented file nor a half-written
\* one is left.
C3_AugmentFailureLeavesNoFile ==
    \A n \in Stems :
        last_attempt[n] \in AugmentFailures => ~PathExists(output_dir, n)

\* C3's case: an overwrite failed, and the driver is at the next index.
C3_Witness ==
    /\ MovedOn
    /\ index < end_index
    /\ last.outcome = "aug_write"
    /\ last_attempt[MolName(last.path)] = "aug_write"

\* C4: two runs over the same index range, the first one starting with no
\* output file and no step failing in either: the first run invokes the tool
\* and the Augmenter exactly once for every molecule of the range, the second
\* run invokes neither, and the output files are the same after both.
C4_SecondRunIsPureSkip ==
    (first.repeat /\ RunEnded /\ ~failed)
        => /\ \A i \in RangeIndices :
                  LET n == MolName(ListIndex(all_xyz_files, i))
                  IN /\ first.tool[n] = 1
                     /\ first.aug[n] = 1
                     /\ tool_calls[n] = 0
                     /\ aug_calls[n] = 0
           /\ output_dir = dir_at_start

C6_VisitsClampedRange ==
    LET size == Len(GetAllXyzFiles(xyz_dirs))
        stop == Min(start_index + batch_size, size)
    IN /\ RunEnded =>
              visited = [k \in 1..(stop - start_index) |-> start_index + k - 1]
       /\ (RunEnded /\ start_index >= size) => (pc = "done" /\ visited = <<>>)

\* C7: no failure escapes a command: generate-batch and combine-xtb end
\* normally whatever their options, the files and the steps' outcomes are.
C7_NoUncaughtError == pc \notin {"crashed", "combine_crashed"}

\* C8: within one run the outcome for an entry of the file list depends only
\* on that entry's own file before the run and its own steps, and processing
\* an entry touches no output file that belongs to another entry.
C8_EntriesAreIndependent ==
    /\ []((last.outcome = "skipped"
               /\ ~PathExists(dir_at_start, MolName(last.path)))
              => \E k \in 1..(Len(visited) - 1) :
                     ListIndex(all_xyz_files, visited[k]) = last.path)
    /\ [][\A n \in Stems :
              output_dir'[n] # output_dir[n] =>
                  \A j \in DOMAIN all_xyz_files :
                      MolName(all_xyz_files[j]) = n =>
                          all_xyz_files[j] = ListIndex(all_xyz_files, index)]_vars

\* C9: combine-xtb over files that each hold one data row under the same
\* header writes one data row per file under that header and leaves every
\* per-molecule file as it is; with no file it writes nothing.
C9_CombineOneRowPerFile ==
    [][(pc \in Ended /\ pc' \in Ended /\ pc' \notin BatchEnded) =>
          LET found == CsvFiles(output_dir)
              uniform ==
                  \A n \in found, m \in found :
                      /\ Len(output_dir[n].rows) = 2
                      /\ output_dir[n].rows[1] = output_dir[m].rows[1]
          IN /\ output_dir' = output_dir
             /\ found = {} => combined_file' = combined_file
             /\ (found # {} /\ uniform) =>
                    /\ pc' = "combine_done"
                    /\ Len(combined_file'.rows) = 1 + Cardinality(found)
                    /\ \A n \in found :
                           combined_file'.rows[1] = output_dir[n].rows[1]]_vars

\* C10: for every start_index and batch_size, negative ones included, every
\* index used to look up all_xyz_files lies in 0 .. dataset size - 1.
C10_LookupIndexInList ==
    (pc = "loop" /\ index < end_index) => (0 <= index /\ index < dataset_size)

====
